---------------------------- MODULE Spec2Model ----------------------------
(***************************************************************************)
(* DocAssist: the code-file classifier (iterate.py), the per-language      *)
(* symbol extractors and the metadata scan (analyze_code.py, master.py).   *)
(*                                                                         *)
(* Representation of inputs.                                               *)
(*  - A Python source is what ast.parse makes of it: either a syntax error *)
(*    or a module body, a sequence of statement nodes, each with its own   *)
(*    body.  Statements that are neither a declaration, an import nor a    *)
(*    compound statement carry no information for the extractor and are    *)
(*    left out of the bodies.                                              *)
(*  - A PHP or JS source is the sequence of the pieces of text that the    *)
(*    extractor's regular expressions can match, in source order, each     *)
(*    with the comment (if any) that encloses it.                          *)
(*  - A notebook is what json.loads makes of its text.                     *)
(*  - A file's bytes are given sparsely: its size and the offsets of its   *)
(*    null bytes and of the ends of its code markers.                      *)
(*  - A call of download_github_repo (clone_repo.py) and a run of         *)
(*    master.main meet an environment chosen at the start: what git, the   *)
(*    network and each stage will answer.                                  *)
(***************************************************************************)
EXTENDS Integers, Sequences, FiniteSets, TLC

VARIABLES
    \* the scan (analyze_code.main, master.main step 3)
    listing,     \* the recursive listing: a sequence of files
    present,     \* indices of the listed files that still exist on disk
    idx,         \* position of the loop in the listing
    pc,          \* position inside the loop body
    cur,         \* locals of get_file_metadata for the current file
    results,     \* the catalog
    raised,      \* the exception that left the scan, or "none"
    deleted_at,  \* per listed file: the pc at which another process deleted it
    \* one call of an extractor
    ex_lang, ex_src, ex_out,
    \* one call of is_code_file
    cf_file, cf_out,
    \* one call of download_github_repo
    dl_url,      \* the argument
    dl_env,      \* what git and the network answer during the call
    dl_pc,       \* position in the function
    dl_branch,   \* position of the branch loop of _download_github_zip
    dl_tried,    \* the fetches attempted so far, in order
    dl_dest,     \* whether the destination directory exists
    dl_out,      \* how the call ended
    \* one run of master.main
    ma_env,      \* what the stages meet during the run
    ma_pc,       \* position in main
    ma_ran,      \* the stages entered so far, in order
    ma_failed,   \* the stages that failed
    ma_printed   \* the messages printed so far

vars == <<listing, present, idx, pc, cur, results, raised, deleted_at,
          ex_lang, ex_src, ex_out, cf_file, cf_out,
          dl_url, dl_env, dl_pc, dl_branch, dl_tried, dl_dest, dl_out,
          ma_env, ma_pc, ma_ran, ma_failed, ma_printed>>

scan_vars == <<listing, present, idx, pc, cur, results, raised, deleted_at>>
ex_vars == <<ex_lang, ex_src, ex_out>>
cf_vars == <<cf_file, cf_out>>
dl_vars == <<dl_url, dl_env, dl_pc, dl_branch, dl_tried, dl_dest, dl_out>>
ma_vars == <<ma_env, ma_pc, ma_ran, ma_failed, ma_printed>>

----------------------------------------------------------------------------
(* Bounds *)

\* number of statement nodes of a Python source
MaxNodes == 3
\* number of matchable pieces of a PHP or JS source
MaxItems == 3
\* number of cells of a notebook
MaxCells == 3
\* number of files of a listing
MaxFiles == 2

----------------------------------------------------------------------------
(* Sequence helpers *)

RECURSIVE DedupeKeepLast(_)
\* a deduplication that keeps the last occurrence of each entry
DedupeKeepLast(s) ==
    IF s = <<>> THEN <<>>
    ELSE LET rest == DedupeKeepLast(Tail(s))
         IN IF \E i \in 1..Len(rest) : rest[i] = Head(s) THEN rest
            ELSE <<Head(s)>> \o rest

RECURSIVE Dedupe(_)
\* list(dict.fromkeys(s)): the first occurrence of each entry, in order
Dedupe(s) ==
    IF s = <<>> THEN <<>>
    ELSE LET init == Dedupe(SubSeq(s, 1, Len(s) - 1))
             last == s[Len(s)]
         IN IF \E i \in 1..Len(init) : init[i] = last THEN init
            ELSE Append(init, last)

RECURSIVE Flatten(_)
Flatten(ss) == IF ss = <<>> THEN <<>> ELSE Head(ss) \o Flatten(Tail(ss))

Range(s) == {s[i] : i \in 1..Len(s)}

NoDup(s) == \A i, j \in 1..Len(s) : i # j => s[i] # s[j]

FirstIdx(s, x) == CHOOSE i \in 1..Len(s) : s[i] = x /\ \A j \in 1..(i - 1) : s[j] # x

----------------------------------------------------------------------------
(* Python sources: the result of ast.parse *)

PyNode(kind, name, module, names, body) ==
    [kind |-> kind, name |-> name, module |-> module, names |-> names, body |-> body]

\* the statement kinds that may enclose other statements, with the names used
PyContainerLabels ==
    { <<"FunctionDef", "a">>, <<"FunctionDef", "b">>, <<"AsyncFunctionDef", "a">>,
      <<"ClassDef", "C">>, <<"If", "">> }

\* A dotted name is the sequence of its components: os is <<"os">>, foo.bar is
\* <<"foo", "bar">>; the empty module of "from . import x" is <<>>.
\* import os / import sys, os / from foo import bar / from . import os
PyImportNodes ==
    { PyNode("Import", "", <<>>, << <<"os">> >>, <<>>),
      PyNode("Import", "", <<>>, << <<"sys">>, <<"os">> >>, <<>>),
      PyNode("ImportFrom", "", <<"foo">>, << <<"bar">> >>, <<>>),
      PyNode("ImportFrom", "", <<>>, << <<"os">> >>, <<>>) }

RECURSIVE PyForests(_)
\* the statement lists with exactly n nodes in all
PyForests(n) ==
    IF n = 0 THEN { <<>> }
    ELSE UNION { { <<t>> \o rest :
                     t \in { PyNode(l[1], l[2], <<>>, <<>>, b) :
                               l \in PyContainerLabels, b \in PyForests(k - 1) }
                             \cup (IF k = 1 THEN PyImportNodes ELSE {}),
                     rest \in PyForests(n - k) } : k \in 1..n }

PySources ==
    { [valid |-> FALSE, body |-> <<>>] }
    \cup { [valid |-> TRUE, body |-> b] : b \in UNION { PyForests(n) : n \in 0..MaxNodes } }

\* a walk that stops at the module's statement list
PyWalkTopLevel(todo) == todo

RECURSIVE PyWalk(_)
\* ast.walk: breadth first, from a deque of nodes
PyWalk(todo) ==
    IF todo = <<>> THEN <<>>
    ELSE <<Head(todo)>> \o PyWalk(Tail(todo) \o Head(todo).body)

\* the entries one import statement appends to imports
PyImportEntries(node) ==
    IF node.kind = "Import" THEN node.names
    ELSE IF node.kind = "ImportFrom"
         THEN [i \in 1..Len(node.names) |->
                 IF node.module # <<>> THEN node.module \o node.names[i]
                                       ELSE node.names[i]]
         ELSE <<>>

NamesOfKind(body, kind) ==
    LET sel == SelectSeq(body, LAMBDA n : n.kind = kind)
    IN [i \in 1..Len(sel) |-> sel[i].name]

extract_python_symbols(content) ==
    IF ~content.valid
    THEN [functions |-> <<>>, classes |-> <<>>, imports |-> <<>>]
    ELSE LET walk == PyWalk(content.body)
         IN [functions |-> NamesOfKind(content.body, "FunctionDef"),
             classes   |-> NamesOfKind(content.body, "ClassDef"),
             imports   |-> Dedupe(Flatten([i \in 1..Len(walk) |-> PyImportEntries(walk[i])]))]

----------------------------------------------------------------------------
(* PHP and JS sources: the matchable pieces of the text, in source order *)

\* form: what the piece of text is; name: the identifier it declares, or for
\* an import the part of the statement that the pattern captures; comment:
\* the comment enclosing the piece ("none", "block" for /* */, "line" for //,
\* "hash" for #).
Item(form, name, comment) == [form |-> form, name |-> name, comment |-> comment]

ItemNames == {"a", "b"}

\* function f( / export function f( / const f = function / const f = () => /
\* export const f = () => / class f / import f from '..' / import 'f' /
\* require('f')
JsForms ==
    { "function", "export_function", "var_function", "var_arrow",
      "export_var_arrow", "class", "import_from", "import_bare", "require" }

\* function f( / function &f( / class f / interface f / trait f / use f; /
\* include('f'); / include(f');
PhpForms ==
    { "function", "function_ref", "class", "interface", "trait", "use",
      "include_quoted", "include_tail_quote" }

CommentedItems == { Item("function", "a", c) : c \in {"block", "line", "hash"} }

\* a PHP or JS source
ItemText(items) == [items |-> items]

ItemSeqs(items) == { ItemText(q) : q \in UNION { [1..n -> items] : n \in 0..MaxItems } }

JsSources ==
    ItemSeqs({ Item(f, n, "none") : f \in JsForms, n \in ItemNames } \cup CommentedItems)

PhpSources ==
    ItemSeqs({ Item(f, n, "none") : f \in PhpForms, n \in ItemNames } \cup CommentedItems)

\* re.sub of the comment patterns: the pieces inside a stripped comment go
StripComments(content, styles) ==
    SelectSeq(content.items, LAMBDA it : it.comment \notin styles)

\* re.findall of a pattern that captures the identifier: the names of the
\* pieces of one of the forms the pattern matches, in source order
FindNames(content, forms) ==
    LET sel == SelectSeq(content, LAMBDA it : it.form \in forms)
    IN [i \in 1..Len(sel) |-> sel[i].name]

\* re.findall of a pattern without a group: the matched text of each piece
FindTexts(content, forms) ==
    LET sel == SelectSeq(content, LAMBDA it : it.form \in forms)
    IN [i \in 1..Len(sel) |-> <<sel[i].form, sel[i].name>>]

extract_php_symbols(content) ==
    LET content_no_comments == StripComments(content, {"block", "line", "hash"})
        functions == FindNames(content_no_comments, {"function", "function_ref"})
        classes == FindNames(content_no_comments, {"class"})
                   \o FindNames(content_no_comments, {"interface"})
                   \o FindNames(content_no_comments, {"trait"})
        uses == FindTexts(content_no_comments, {"use"})
        \* [^'"]+ must consume at least one character before the quote, so a
        \* quote right after the parenthesis never matches
        includes == FindTexts(content_no_comments, {"include_tail_quote"})
    IN [functions |-> Dedupe(functions), classes |-> Dedupe(classes),
        uses |-> Dedupe(uses), includes |-> Dedupe(includes)]

extract_js_symbols(content) ==
    LET content_nc == StripComments(content, {"block", "line"})
        functions == FindNames(content_nc, {"function", "export_function"})
                     \o FindNames(content_nc, {"export_function"})
                     \o FindNames(content_nc, {"var_function"})
                     \o FindNames(content_nc, {"var_arrow", "export_var_arrow"})
                     \o FindNames(content_nc, {"export_var_arrow"})
        classes == FindNames(content_nc, {"class"})
        imports == FindTexts(content_nc, {"import_from"})
                   \o FindTexts(content_nc, {"import_bare"})
                   \o FindTexts(content_nc, {"require"})
    IN [functions |-> Dedupe(functions), classes |-> Dedupe(classes),
        imports |-> Dedupe(imports)]

----------------------------------------------------------------------------
(* Notebooks: the result of json.loads *)

\* Optional[x]: None is <<>>, a value x is <<x>>
None == <<>>
Some(x) == <<x>>

\* A cell.  t: "object" for a JSON object, "number" for any other JSON value.
\* source_t: "list" for a list of strings (or a string), "absent" for no
\* source key, "number" for a value that cannot be joined.  py: what
\* ast.parse makes of the joined source.
Cell(t, cell_type, source_t, py) ==
    [t |-> t, cell_type |-> cell_type, source_t |-> source_t, py |-> py]

PyDef(name) == PyNode("FunctionDef", name, <<>>, <<>>, <<>>)
PyClass(name) == PyNode("ClassDef", name, <<>>, <<>>, <<>>)

NbCells ==
    { Cell("object", "code", "list", [valid |-> TRUE, body |-> <<PyDef("a")>>]),
      Cell("object", "code", "list", [valid |-> TRUE, body |-> <<PyDef("b")>>]),
      Cell("object", "code", "list", [valid |-> TRUE, body |-> <<PyDef("b"), PyClass("C")>>]),
      Cell("object", "code", "list", [valid |-> FALSE, body |-> <<>>]),
      Cell("object", "code", "absent", [valid |-> TRUE, body |-> <<>>]),
      Cell("object", "code", "number", [valid |-> TRUE, body |-> <<>>]),
      Cell("object", "markdown", "list", [valid |-> FALSE, body |-> <<>>]),
      Cell("object", "raw", "list", [valid |-> TRUE, body |-> <<>>]),
      Cell("number", "", "absent", [valid |-> TRUE, body |-> <<>>]) }

\* The metadata entry.  t, kernelspec.t, language_info.t: "absent", "object",
\* or "null" for a value that is no object; language, name: None or a string.
NbMetadata ==
    { [t |-> "absent", kernelspec |-> [t |-> "absent", language |-> None],
                       language_info |-> [t |-> "absent", name |-> None]],
      [t |-> "null",   kernelspec |-> [t |-> "absent", language |-> None],
                       language_info |-> [t |-> "absent", name |-> None]],
      [t |-> "object", kernelspec |-> [t |-> "object", language |-> Some("python")],
                       language_info |-> [t |-> "object", name |-> Some("ipython")]],
      [t |-> "object", kernelspec |-> [t |-> "absent", language |-> None],
                       language_info |-> [t |-> "object", name |-> Some("R")]],
      [t |-> "object", kernelspec |-> [t |-> "null", language |-> None],
                       language_info |-> [t |-> "absent", name |-> None]],
      [t |-> "object", kernelspec |-> [t |-> "object", language |-> None],
                       language_info |-> [t |-> "null", name |-> None]],
      [t |-> "object", kernelspec |-> [t |-> "object", language |-> None],
                       language_info |-> [t |-> "absent", name |-> None]] }

\* json: "invalid" for a text json.loads rejects, "object" for a JSON object,
\* "array" for any other JSON value.  cells_t: "absent", "list", or "null"
\* for a value that cannot be iterated.
NbDoc(json, cells_t, cells, metadata) ==
    [json |-> json, cells_t |-> cells_t, cells |-> cells, metadata |-> metadata]

NoMetadata == CHOOSE m \in NbMetadata : m.t = "absent"

NbSources ==
    { NbDoc("invalid", "absent", <<>>, NoMetadata), NbDoc("array", "absent", <<>>, NoMetadata) }
    \cup { NbDoc("object", t, <<>>, m) : t \in {"absent", "null"}, m \in NbMetadata }
    \cup { NbDoc("object", "list", c, m) :
             c \in UNION { [1..n -> NbCells] : n \in 0..MaxCells }, m \in NbMetadata }

NullStats ==
    [nb_num_code_cells |-> None, nb_num_markdown_cells |-> None, nb_kernel_language |-> None]

NbRaise(exc) ==
    [raised |-> exc, functions |-> <<>>, classes |-> <<>>, stats |-> NullStats]

\* a join that takes the code cells last to first
ConcatCodeReversed(code_cells) ==
    [valid |-> \A i \in 1..Len(code_cells) : code_cells[i].py.valid,
     body  |-> Flatten([i \in 1..Len(code_cells) |->
                          code_cells[Len(code_cells) + 1 - i].py.body])]

\* "\n\n".join(...) of the code cells' sources, then ast.parse: a syntax error
\* in one cell is a syntax error of the whole
ConcatCode(code_cells) ==
    [valid |-> \A i \in 1..Len(code_cells) : code_cells[i].py.valid,
     body  |-> Flatten([i \in 1..Len(code_cells) |-> code_cells[i].py.body])]

\* nb.get("metadata", {}).get("kernelspec", {}).get("language")
\*   or nb.get("metadata", {}).get("language_info", {}).get("name")
KernelLanguageRaises(m) ==
    \/ m.t = "null"
    \/ m.t = "object" /\ m.kernelspec.t = "null"
    \/ m.t = "object" /\ m.kernelspec.language = None /\ m.language_info.t = "null"

KernelLanguage(m) ==
    IF m.t = "absent" THEN None
    ELSE IF m.kernelspec.t = "object" /\ m.kernelspec.language # None
         THEN m.kernelspec.language
         ELSE IF m.language_info.t = "object" THEN m.language_info.name ELSE None

extract_ipynb_symbols(text) ==
    IF text.json = "invalid" THEN NbRaise("none")
    ELSE IF text.json # "object" THEN NbRaise("AttributeError")
    ELSE IF text.cells_t = "null" THEN NbRaise("TypeError")
    ELSE IF \E i \in 1..Len(text.cells) : text.cells[i].t # "object"
         THEN NbRaise("AttributeError")
    ELSE IF KernelLanguageRaises(text.metadata) THEN NbRaise("AttributeError")
    ELSE
      LET code_cells == SelectSeq(text.cells, LAMBDA c : c.cell_type = "code")
          md_cells == SelectSeq(text.cells, LAMBDA c : c.cell_type = "markdown")
          stats == [nb_num_code_cells |-> Some(Len(code_cells)),
                    nb_num_markdown_cells |-> Some(Len(md_cells)),
                    nb_kernel_language |-> KernelLanguage(text.metadata)]
      IN IF \E i \in 1..Len(code_cells) : code_cells[i].source_t = "number"
         THEN NbRaise("TypeError")
         ELSE LET py == extract_python_symbols(ConcatCode(code_cells))
              IN [raised |-> "none", functions |-> py.functions,
                  classes |-> py.classes, stats |-> stats]

----------------------------------------------------------------------------
(* The dispatcher *)

extract_symbols_for_file(lang, content) ==
    IF lang = "python"
    THEN LET r == extract_python_symbols(content)
         IN [raised |-> "none", funcs |-> r.functions, classes |-> r.classes,
             extras |-> [imports |-> r.imports]]
    ELSE IF lang = "php"
    THEN LET r == extract_php_symbols(content)
         IN [raised |-> "none", funcs |-> r.functions, classes |-> r.classes,
             extras |-> [imports |-> r.uses, includes |-> r.includes]]
    ELSE IF lang = "js"
    THEN LET r == extract_js_symbols(content)
         IN [raised |-> "none", funcs |-> r.functions, classes |-> r.classes,
             extras |-> [imports |-> r.imports]]
    ELSE IF lang = "ipynb"
    THEN LET r == extract_ipynb_symbols(content)
         IN [raised |-> r.raised, funcs |-> r.functions, classes |-> r.classes,
             extras |-> [nb_stats |-> r.stats]]
    ELSE [raised |-> "none", funcs |-> <<>>, classes |-> <<>>, extras |-> <<>>]

----------------------------------------------------------------------------
(* Files *)

\* stem, ext: the basename is stem followed by ext, and ext is Path.suffix.
\* is_file: a regular file (not a directory).  readable: open() succeeds.
\* size: number of bytes; the content is ASCII, so also of characters.
\* lines: number of lines.  nulls: offsets (from 1) of the null bytes.
\* shebang: the content starts with "#!".  marker_ends: offsets of the last
\* byte of each occurrence of "from ", "import " or one of the markers.
\* text: what the extractor of the file's language makes of the content.
File(stem, ext, is_file, readable, size, lines, nulls, shebang, marker_ends, text) ==
    [stem |-> stem, ext |-> ext, is_file |-> is_file, readable |-> readable,
     size |-> size, lines |-> lines, nulls |-> nulls, shebang |-> shebang,
     marker_ends |-> marker_ends, text |-> text]

Name(f) == <<f.stem, f.ext>>

\* str.lower() on the suffixes used here
Lower(ext) ==
    CASE ext = ".PNG" -> ".png"
      [] ext = ".Py" -> ".py"
      [] ext = ".JAVA" -> ".java"
      [] OTHER -> ext

CODE_EXTENSIONS ==
    { ".py", ".ipynb", ".js", ".jsx", ".ts", ".tsx", ".java", ".kt", ".kts", ".groovy",
      ".c", ".h", ".cpp", ".cxx", ".hpp", ".hh", ".cc", ".go", ".rs", ".rb", ".php",
      ".cs", ".vb", ".fs", ".swift", ".m", ".mm", ".scala", ".pl", ".r",
      ".sh", ".bash", ".zsh", ".ps1", ".psm1", ".cmd", ".bat",
      ".sql", ".yml", ".yaml", ".toml", ".json", ".xml", ".ini", ".cfg", ".conf",
      ".gradle", ".sbt", ".mk" }

NAME_ONLY_CODE == { <<"Dockerfile", "">>, <<"Makefile", "">> }

NON_CODE_BINARY_EXTS ==
    { ".png", ".jpg", ".jpeg", ".gif", ".bmp", ".webp", ".svg", ".ico", ".pdf",
      ".zip", ".rar", ".7z", ".tar", ".gz",
      ".mp3", ".wav", ".flac", ".mp4", ".mkv", ".mov", ".avi", ".exe", ".dll",
      ".ttf", ".otf", ".woff", ".woff2",
      ".doc", ".docx", ".ppt", ".pptx", ".xls", ".xlsx" }

\* default of is_probably_text's sample_bytes
SAMPLE_BYTES == 1024
\* default of has_code_markers's sample_chars
SAMPLE_CHARS == 2000

Min(a, b) == IF a < b THEN a ELSE b

\* f.read(n): the offsets of the bytes read
ReadOffsets(f, n) == 1..Min(n, f.size)

\* a check that reads the whole file instead of a sample
is_probably_text_whole_file(file_path, sample_bytes) ==
    IF ~file_path.readable THEN FALSE
    ELSE file_path.nulls \cap ReadOffsets(file_path, file_path.size) = {}

is_probably_text(file_path, sample_bytes) ==
    IF ~file_path.readable THEN FALSE
    ELSE file_path.nulls \cap ReadOffsets(file_path, sample_bytes) = {}

has_code_markers(file_path, sample_chars) ==
    IF ~is_probably_text(file_path, SAMPLE_BYTES) THEN FALSE
    ELSE IF ~file_path.readable THEN FALSE
    ELSE \/ file_path.shebang /\ 2 \in ReadOffsets(file_path, sample_chars)
         \/ file_path.marker_ends \cap ReadOffsets(file_path, sample_chars) # {}

\* a classifier that tries the content markers before the deny-list
is_code_file_markers_first(file_path) ==
    IF Name(file_path) \in NAME_ONLY_CODE THEN TRUE
    ELSE LET ext == Lower(file_path.ext)
         IN IF has_code_markers(file_path, SAMPLE_CHARS) THEN TRUE
            ELSE IF ext \in NON_CODE_BINARY_EXTS THEN FALSE
            ELSE IF ext \in CODE_EXTENSIONS
                 THEN is_probably_text(file_path, SAMPLE_BYTES)
                 ELSE FALSE

is_code_file(file_path) ==
    IF Name(file_path) \in NAME_ONLY_CODE THEN TRUE
    ELSE LET ext == Lower(file_path.ext)
         IN IF ext \in NON_CODE_BINARY_EXTS THEN FALSE
            ELSE IF ext \in CODE_EXTENSIONS
                 THEN is_probably_text(file_path, SAMPLE_BYTES)
                 ELSE has_code_markers(file_path, SAMPLE_CHARS)

\* basenames offered to the classifier
ClassifyNames ==
    { <<"Dockerfile", "">>, <<"Makefile", "">>, <<"Makefile", ".PNG">>, <<"README", "">>,
      <<"logo", ".png">>, <<"logo", ".PNG">>, <<"main", ".py">>, <<"main", ".Py">>,
      <<"App", ".java">>, <<"notes", ".txt">>, <<"archive", ".gz">> }

\* sizes and offsets around the two sample lengths
ClassifySizes == {0, 2, SAMPLE_BYTES, SAMPLE_BYTES + 1, SAMPLE_CHARS + 1}
NullOffsets == {1, SAMPLE_BYTES, SAMPLE_BYTES + 1}
MarkerOffsets == {2, SAMPLE_CHARS, SAMPLE_CHARS + 1}

\* the bytes are consistent: offsets lie in the file, a byte of a marker or
\* of the shebang is no null byte
ClassifyFiles ==
    { File(n[1], n[2], TRUE, r, sz, 0, nl, sb, me, ItemText(<<>>)) :
        n \in ClassifyNames, r \in BOOLEAN,
        sz \in ClassifySizes,
        nl \in SUBSET NullOffsets, sb \in BOOLEAN,
        me \in { {} } \cup { {o} : o \in MarkerOffsets } }

WellFormedBytes(f) ==
    /\ f.nulls \subseteq 1..f.size
    /\ f.marker_ends \subseteq 1..f.size
    /\ f.marker_ends \cap f.nulls = {}
    /\ f.shebang => f.size >= 2 /\ f.nulls \cap {1, 2} = {}

----------------------------------------------------------------------------
(* The metadata assembler and the scan *)

LANG_BY_EXT ==
    [e \in {".py", ".php", ".js", ".jsx", ".ts", ".tsx", ".ipynb"} |->
       CASE e = ".py" -> "python"
         [] e = ".php" -> "php"
         [] e = ".ipynb" -> "ipynb"
         [] OTHER -> "js"]

\* LANG_BY_EXT.get(ext): "" stands for None
LangOf(ext) == IF ext \in DOMAIN LANG_BY_EXT THEN LANG_BY_EXT[ext] ELSE ""

\* what each extractor makes of the empty text
EmptyText(lang) ==
    IF lang = "python" THEN [valid |-> TRUE, body |-> <<>>]
    ELSE IF lang = "ipynb" THEN NbDoc("invalid", "absent", <<>>, NoMetadata)
    ELSE ItemText(<<>>)

\* the files a listing is drawn from
ScanFiles ==
    { \* a Python file: valid with a nested def and an import, and one with a
      \* syntax error
      File("main", ".py", TRUE, TRUE, 40, 3, {}, FALSE, {2},
           [valid |-> TRUE,
            body |-> << PyNode("FunctionDef", "a", <<>>, <<>>, <<PyDef("b")>>),
                        PyNode("Import", "", <<>>, << <<"os">> >>, <<>>) >>]),
      File("bad", ".Py", TRUE, TRUE, 10, 1, {}, FALSE, {},
           [valid |-> FALSE, body |-> <<>>]),
      \* a Python file that cannot be opened, and a directory named like one
      File("locked", ".py", TRUE, FALSE, 40, 3, {}, FALSE, {2},
           [valid |-> TRUE, body |-> <<PyDef("a")>>]),
      File("pkg", ".py", FALSE, FALSE, 0, 0, {}, FALSE, {}, [valid |-> TRUE, body |-> <<>>]),
      \* notebooks: well formed, not JSON, JSON but no object
      File("nb", ".ipynb", TRUE, TRUE, 60, 1, {}, FALSE, {2},
           NbDoc("object", "list",
                 << Cell("object", "code", "list", [valid |-> TRUE, body |-> <<PyDef("a")>>]),
                    Cell("object", "markdown", "list", [valid |-> FALSE, body |-> <<>>]) >>,
                 NoMetadata)),
      File("broken", ".ipynb", TRUE, TRUE, 5, 1, {}, FALSE, {},
           NbDoc("invalid", "absent", <<>>, NoMetadata)),
      File("list", ".ipynb", TRUE, TRUE, 2, 1, {}, FALSE, {},
           NbDoc("array", "absent", <<>>, NoMetadata)),
      \* PHP and JS
      File("index", ".php", TRUE, TRUE, 30, 2, {}, FALSE, {2},
           ItemText(<< Item("class", "a", "none"), Item("function", "b", "none") >>)),
      File("app", ".js", TRUE, TRUE, 30, 2, {}, FALSE, {2},
           ItemText(<< Item("var_arrow", "a", "none"), Item("function", "b", "none") >>)),
      \* code of no known language, and no code
      File("App", ".java", TRUE, TRUE, 50, 4, {}, FALSE, {2}, ItemText(<<>>)),
      File("Makefile", "", TRUE, TRUE, 20, 2, {}, FALSE, {}, ItemText(<<>>)),
      File("logo", ".png", TRUE, TRUE, 8, 1, {1}, FALSE, {}, ItemText(<<>>)) }

Listings == UNION { [1..n -> ScanFiles] : n \in 0..MaxFiles }

\* the modification time of every file, as isoformat() prints it
MTIME == "2024-01-01T00:00:00"

NoCur == [content |-> ItemText(<<>>), num_lines |-> 0, num_chars |-> 0, funcs |-> <<>>,
          classes |-> <<>>, extras |-> <<>>, size_bytes |-> 0]

\* a filter that lets every regular file through
is_target_any_file(path, exists) == exists /\ path.is_file

is_target_code_file(path, exists) ==
    /\ exists /\ path.is_file
    /\ Lower(path.ext) \in DOMAIN LANG_BY_EXT

\* read_text, count_lines, count_chars
read_text(path, exists) ==
    IF exists /\ path.is_file /\ path.readable
    THEN [content |-> path.text, num_lines |-> path.lines, num_chars |-> path.size]
    ELSE [content |-> EmptyText(LangOf(Lower(path.ext))), num_lines |-> 0, num_chars |-> 0]

\* iso_mtime
iso_mtime(exists) == IF exists THEN MTIME ELSE ""

\* the data dictionary get_file_metadata returns; i is the path
FileData(i, path, c, last_modified) ==
    LET base == [file_name |-> Name(path), file_path |-> i,
                 extension |-> Lower(path.ext), language |-> LangOf(Lower(path.ext)),
                 size_bytes |-> c.size_bytes, last_modified |-> last_modified,
                 num_lines |-> c.num_lines, num_characters |-> c.num_chars,
                 num_functions |-> Len(c.funcs), num_classes |-> Len(c.classes),
                 functions |-> c.funcs, classes |-> c.classes]
        imports == IF "imports" \in DOMAIN c.extras
                   THEN [imports |-> c.extras.imports] ELSE <<>>
        includes == IF "includes" \in DOMAIN c.extras
                    THEN [includes |-> c.extras.includes] ELSE <<>>
        nb == IF "nb_stats" \in DOMAIN c.extras THEN c.extras.nb_stats ELSE <<>>
    IN base @@ imports @@ includes @@ nb

----------------------------------------------------------------------------
(* Specification Spec: one scan of a listing, with another process that may
   delete listed files while the scan runs *)

IdleExtract == ex_lang = "" /\ ex_src = <<>> /\ ex_out = None
IdleClassify == cf_file = <<>> /\ cf_out = None
NoOutcome == [kind |-> "none", value |-> ""]
IdleDownload ==
    /\ dl_url = <<>> /\ dl_env = <<>> /\ dl_pc = "idle" /\ dl_branch = 1
    /\ dl_tried = <<>> /\ dl_dest = FALSE /\ dl_out = NoOutcome
IdleMain ==
    /\ ma_env = <<>> /\ ma_pc = "idle" /\ ma_ran = <<>> /\ ma_failed = {}
    /\ ma_printed = <<>>
IdleScan ==
    /\ listing = <<>> /\ present = {} /\ idx = 1 /\ pc = "idle" /\ cur = NoCur
    /\ results = <<>> /\ raised = "none" /\ deleted_at = <<>>

Init ==
    /\ listing \in Listings
    /\ present = DOMAIN listing
    /\ idx = 1
    /\ pc = "loop"
    /\ cur = NoCur
    /\ results = <<>>
    /\ raised = "none"
    /\ deleted_at = [i \in DOMAIN listing |-> "never"]
    /\ IdleExtract /\ IdleClassify /\ IdleDownload /\ IdleMain

Running == pc \notin {"idle", "done", "raised"}

\* another process removes a file that the scan has not finished with
DeleteFile ==
    /\ Running
    /\ \E i \in present :
         /\ i >= idx
         /\ present' = present \ {i}
         /\ deleted_at' = [deleted_at EXCEPT ![i] = IF i = idx THEN pc ELSE "ahead"]
    /\ UNCHANGED <<listing, idx, pc, cur, results, raised, ex_vars, cf_vars, dl_vars, ma_vars>>

\* for file_path in repo_path.rglob("*"): if is_target_code_file(file_path):
NextFile ==
    /\ pc = "loop" /\ idx <= Len(listing)
    /\ IF is_target_code_file(listing[idx], idx \in present)
       THEN pc' = "read_text" /\ idx' = idx
       ELSE pc' = "loop" /\ idx' = idx + 1
    /\ cur' = NoCur
    /\ UNCHANGED <<listing, present, results, raised, deleted_at, ex_vars, cf_vars, dl_vars, ma_vars>>

\* get_file_metadata: content = read_text(path), and the two counts
ReadText ==
    /\ pc = "read_text"
    /\ LET r == read_text(listing[idx], idx \in present)
       IN cur' = [cur EXCEPT !.content = r.content, !.num_lines = r.num_lines,
                             !.num_chars = r.num_chars]
    /\ pc' = "extract"
    /\ UNCHANGED <<listing, present, idx, results, raised, deleted_at, ex_vars, cf_vars, dl_vars, ma_vars>>

\* get_file_metadata: extract_symbols_for_file(path, lang, content) if lang
ExtractSymbols ==
    /\ pc = "extract"
    /\ LET lang == LangOf(Lower(listing[idx].ext))
           r == IF lang # "" THEN extract_symbols_for_file(lang, cur.content)
                ELSE [raised |-> "none", funcs |-> <<>>, classes |-> <<>>, extras |-> <<>>]
       IN IF r.raised # "none"
          THEN /\ raised' = r.raised
               /\ pc' = "raised"
               /\ cur' = cur
          ELSE /\ raised' = raised
               /\ pc' = "exists"
               /\ cur' = [cur EXCEPT !.funcs = r.funcs, !.classes = r.classes,
                                     !.extras = r.extras]
    /\ UNCHANGED <<listing, present, idx, results, deleted_at, ex_vars, cf_vars, dl_vars, ma_vars>>

\* get_file_metadata: ... if path.exists() else 0
PathExists ==
    /\ pc = "exists"
    /\ IF idx \in present
       THEN pc' = "stat" /\ cur' = cur
       ELSE pc' = "iso_mtime" /\ cur' = [cur EXCEPT !.size_bytes = 0]
    /\ UNCHANGED <<listing, present, idx, results, raised, deleted_at, ex_vars, cf_vars, dl_vars, ma_vars>>

\* get_file_metadata: path.stat().st_size
PathStat ==
    /\ pc = "stat"
    /\ IF idx \in present
       THEN /\ cur' = [cur EXCEPT !.size_bytes = listing[idx].size]
            /\ pc' = "iso_mtime"
            /\ raised' = raised
       ELSE /\ cur' = cur
            /\ pc' = "raised"
            /\ raised' = "FileNotFoundError"
    /\ UNCHANGED <<listing, present, idx, results, deleted_at, ex_vars, cf_vars, dl_vars, ma_vars>>

\* a loop that puts each new record in front of the catalog
AppendMetadataInFront ==
    /\ pc = "iso_mtime"
    /\ results' = <<FileData(idx, listing[idx], cur, iso_mtime(idx \in present))>> \o results
    /\ idx' = idx + 1
    /\ pc' = "loop"
    /\ cur' = NoCur
    /\ UNCHANGED <<listing, present, raised, deleted_at, ex_vars, cf_vars, dl_vars, ma_vars>>

\* get_file_metadata: iso_mtime(path), the rest of the dictionary, return;
\* main: results.append(...)
AppendMetadata ==
    /\ pc = "iso_mtime"
    /\ results' = Append(results, FileData(idx, listing[idx], cur, iso_mtime(idx \in present)))
    /\ idx' = idx + 1
    /\ pc' = "loop"
    /\ cur' = NoCur
    /\ UNCHANGED <<listing, present, raised, deleted_at, ex_vars, cf_vars, dl_vars, ma_vars>>

\* main: the loop is over, json.dump(results)
Finish ==
    /\ pc = "loop" /\ idx > Len(listing)
    /\ pc' = "done"
    /\ UNCHANGED <<listing, present, idx, cur, results, raised, deleted_at, ex_vars, cf_vars, dl_vars, ma_vars>>

Next ==
    \/ DeleteFile
    \/ NextFile
    \/ ReadText
    \/ ExtractSymbols
    \/ PathExists
    \/ PathStat
    \/ AppendMetadata
    \/ Finish

Spec == Init /\ [][Next]_vars

----------------------------------------------------------------------------
(* Specification SpecExtract: one call of extract_symbols_for_file *)

InitExtract ==
    /\ \/ ex_lang = "python" /\ ex_src \in PySources
       \/ ex_lang = "php" /\ ex_src \in PhpSources
       \/ ex_lang = "js" /\ ex_src \in JsSources
       \/ ex_lang = "ipynb" /\ ex_src \in NbSources
    /\ ex_out = None
    /\ IdleScan /\ IdleClassify /\ IdleDownload /\ IdleMain

ExtractSymbolsForFile ==
    /\ ex_out = None
    /\ ex_out' = Some(extract_symbols_for_file(ex_lang, ex_src))
    /\ UNCHANGED <<ex_lang, ex_src, scan_vars, cf_vars, dl_vars, ma_vars>>

NextExtract == ExtractSymbolsForFile

SpecExtract == InitExtract /\ [][NextExtract]_vars

----------------------------------------------------------------------------
(* Specification SpecClassify: one call of is_code_file *)

InitClassify ==
    /\ cf_file \in { f \in ClassifyFiles : WellFormedBytes(f) }
    /\ cf_out = None
    /\ IdleScan /\ IdleExtract /\ IdleDownload /\ IdleMain

IsCodeFile ==
    /\ cf_out = None
    /\ cf_out' = Some(is_code_file(cf_file))
    /\ UNCHANGED <<cf_file, scan_vars, ex_vars, dl_vars, ma_vars>>

NextClassify == IsCodeFile

SpecClassify == InitClassify /\ [][NextClassify]_vars

----------------------------------------------------------------------------
(* Specification SpecDownload: one call of clone_repo.download_github_repo.
   A name is the sequence of its pieces, so that a trailing ".git" can be
   taken off; the empty name stands for both None and "". Creating a
   directory is taken to succeed. *)

Netlocs == {"github.com", "GitHub.com", "gist.github.com", "dev.azure.com", "gitlab.com"}

\* "github.com" in parsed.netloc.lower()
IsGithub(netloc) == netloc \in {"github.com", "GitHub.com", "gist.github.com"}

\* the components of parsed.path that are not empty
UrlPaths ==
    { <<>>,
      << <<"owner">> >>,
      << <<"owner">>, <<"repo">> >>,
      << <<"owner">>, <<"repo", ".git">> >>,
      << <<"owner">>, <<".git">> >>,
      << <<"owner">>, <<"repo">>, <<"tree">> >> }

Url(kind, netloc, path) == [kind |-> kind, netloc |-> netloc, path |-> path]

\* the arguments: something that is no string, a blank string, a URL
DlUrls ==
    { Url("not_str", "", <<>>), Url("blank", "", <<>>) }
      \cup { Url("url", n, p) : n \in Netlocs, p \in UrlPaths }

\* git on the PATH or not, the end of git clone, the end of each ZIP fetch
DlEnvs ==
    [has_git : BOOLEAN,
     clone   : {"ok", "CalledProcessError"},
     zip     : [{"main", "master"} -> {"ok", "error"}]]

_has_git(env) == env.has_git

_parse_github_owner_repo(repo_url) ==
    IF ~IsGithub(repo_url.netloc) THEN << <<>>, <<>> >>
    ELSE IF Len(repo_url.path) < 2 THEN << <<>>, <<>> >>
    ELSE LET owner == repo_url.path[1]
             repo == repo_url.path[2]
         IN << owner,
               IF repo[Len(repo)] = ".git" THEN SubSeq(repo, 1, Len(repo) - 1) ELSE repo >>

\* a branch list that starts with master
branches_master_first == <<"master", "main">>

branches == <<"main", "master">>

Raise(exc) == [kind |-> "raise", value |-> exc]
Return(value) == [kind |-> "return", value |-> value]

InitDownload ==
    /\ dl_url \in DlUrls
    /\ dl_env \in DlEnvs
    /\ dl_pc = "start"
    /\ dl_branch = 1
    /\ dl_tried = <<>>
    /\ dl_dest = FALSE
    /\ dl_out = NoOutcome
    /\ IdleScan /\ IdleExtract /\ IdleClassify /\ IdleMain

\* the argument check, base_dir, dest_dir = _unique_dir(...)
CheckUrl ==
    /\ dl_pc = "start"
    /\ IF dl_url.kind # "url"
       THEN dl_out' = Raise("ValueError") /\ dl_pc' = "done"
       ELSE dl_out' = dl_out /\ dl_pc' = "has_git"
    /\ UNCHANGED <<dl_url, dl_env, dl_branch, dl_tried, dl_dest,
                   scan_vars, ex_vars, cf_vars, ma_vars>>

\* if _has_git():
HasGit ==
    /\ dl_pc = "has_git"
    /\ dl_pc' = IF _has_git(dl_env) THEN "git_clone" ELSE "zip_check"
    /\ UNCHANGED <<dl_url, dl_env, dl_branch, dl_tried, dl_dest, dl_out,
                   scan_vars, ex_vars, cf_vars, ma_vars>>

\* _git_clone and the handler around it: the destination is made, a failed
\* clone removes it and raises RuntimeError, which is raised again unless the
\* URL is a GitHub one
GitClone ==
    /\ dl_pc = "git_clone"
    /\ dl_tried' = Append(dl_tried, <<"git", "clone">>)
    /\ IF dl_env.clone = "ok"
       THEN dl_dest' = TRUE /\ dl_out' = Return("dest_dir") /\ dl_pc' = "done"
       ELSE /\ dl_dest' = FALSE
            /\ IF ~IsGithub(dl_url.netloc)
               THEN dl_out' = Raise("RuntimeError") /\ dl_pc' = "done"
               ELSE dl_out' = dl_out /\ dl_pc' = "zip_check"
    /\ UNCHANGED <<dl_url, dl_env, dl_branch, scan_vars, ex_vars, cf_vars, ma_vars>>

\* if "github.com" in parsed.netloc.lower(): ... else the final raise
ZipFallback ==
    /\ dl_pc = "zip_check"
    /\ IF IsGithub(dl_url.netloc)
       THEN dl_out' = dl_out /\ dl_pc' = "download_github_zip"
       ELSE dl_out' = Raise("RuntimeError") /\ dl_pc' = "done"
    /\ UNCHANGED <<dl_url, dl_env, dl_branch, dl_tried, dl_dest,
                   scan_vars, ex_vars, cf_vars, ma_vars>>

\* _download_github_zip up to its loop: the ValueError is not a RuntimeError
\* and leaves download_github_repo as it is
DownloadGithubZip ==
    /\ dl_pc = "download_github_zip"
    /\ LET parsed == _parse_github_owner_repo(dl_url)
       IN IF parsed[1] = <<>> \/ parsed[2] = <<>>
          THEN dl_out' = Raise("ValueError") /\ dl_pc' = "done" /\ dl_dest' = dl_dest
          ELSE dl_out' = dl_out /\ dl_pc' = "zip_branch" /\ dl_dest' = TRUE
    /\ dl_branch' = 1
    /\ UNCHANGED <<dl_url, dl_env, dl_tried, scan_vars, ex_vars, cf_vars, ma_vars>>

\* one turn of for branch in branches: a fetch that works returns, one that
\* fails moves on; after the last the RuntimeError is raised, the caller
\* removes the destination and raises it again
DownloadAndExtractZip ==
    /\ dl_pc = "zip_branch"
    /\ dl_tried' = Append(dl_tried, <<"zip", branches[dl_branch]>>)
    /\ IF dl_env.zip[branches[dl_branch]] = "ok"
       THEN /\ dl_out' = Return("dest_dir") /\ dl_pc' = "done"
            /\ UNCHANGED <<dl_branch, dl_dest>>
       ELSE IF dl_branch < Len(branches)
            THEN /\ dl_branch' = dl_branch + 1
                 /\ UNCHANGED <<dl_out, dl_pc, dl_dest>>
            ELSE /\ dl_out' = Raise("RuntimeError") /\ dl_pc' = "done"
                 /\ dl_dest' = FALSE
                 /\ UNCHANGED dl_branch
    /\ UNCHANGED <<dl_url, dl_env, scan_vars, ex_vars, cf_vars, ma_vars>>

NextDownload ==
    \/ CheckUrl
    \/ HasGit
    \/ GitClone
    \/ ZipFallback
    \/ DownloadGithubZip
    \/ DownloadAndExtractZip

SpecDownload == InitDownload /\ [][NextDownload]_vars

----------------------------------------------------------------------------
(* Specification SpecMain: one run of master.main. Each stage meets what
   ma_env holds for it; a stage function gives back its return value and the
   lines it prints. *)

\* def analyse_metadata(): the number of parameters
AnalyseMetadataParams == 0

\* aa.analyse_metadata(output_file, SRC_DIR): the number of arguments
AnalyseMetadataArgs == 2

MaEnvs ==
    [download  : {"ok", "raises"},
     copy      : {"ok", "raises"},
     repo_path : {"exists", "missing"},
     scan      : {"ok", "raises"},
     analyse   : {"ok", "raises"}]

Stage(ret, printed) == [ret |-> ret, printed |-> printed]

download_repo(env) ==
    IF env.download = "ok" THEN Stage("project_name", <<>>)
    ELSE Stage("error", <<"Error: e">>)

iterate_repo(env) ==
    IF env.copy = "ok" THEN Stage("dest", <<"Code files copied to: dest">>)
    ELSE Stage("error", <<"Error: e">>)

\* the call raises TypeError when the arguments do not fit the parameters,
\* and otherwise whatever the service call raises
AnalyseMetadataRaises(env) ==
    AnalyseMetadataArgs # AnalyseMetadataParams \/ env.analyse = "raises"

\* the handler prints and falls off the end of the function: None either way
documentation_generation(env) ==
    IF AnalyseMetadataRaises(env) THEN Stage("None", <<"Error: e">>)
    ELSE Stage("None", <<>>)

InitMain ==
    /\ ma_env \in MaEnvs
    /\ ma_pc = "setup"
    /\ ma_ran = <<>>
    /\ ma_failed = {}
    /\ ma_printed = <<>>
    /\ IdleScan /\ IdleExtract /\ IdleClassify /\ IdleDownload

\* intial_setup()
InitialSetup ==
    /\ ma_pc = "setup"
    /\ ma_ran' = Append(ma_ran, "setup")
    /\ ma_printed' = Append(ma_printed, "Directories set up at: codehub")
    /\ ma_pc' = "download"
    /\ UNCHANGED <<ma_env, ma_failed, scan_vars, ex_vars, cf_vars, dl_vars>>

\* project_name = download_repo(repo_url) and the test of its result
DownloadRepo ==
    /\ ma_pc = "download"
    /\ ma_ran' = Append(ma_ran, "download")
    /\ LET r == download_repo(ma_env)
       IN IF r.ret = "error"
          THEN /\ ma_printed' = ma_printed \o r.printed \o <<"Error downloading repository.">>
               /\ ma_failed' = ma_failed \cup {"download"}
               /\ ma_pc' = "done"
          ELSE /\ ma_printed' = ma_printed \o r.printed \o <<"Project name: project_name">>
               /\ ma_failed' = ma_failed
               /\ ma_pc' = "copy"
    /\ UNCHANGED <<ma_env, scan_vars, ex_vars, cf_vars, dl_vars>>

\* result = iterate_repo(src_dir) and the test of its result
IterateRepo ==
    /\ ma_pc = "copy"
    /\ ma_ran' = Append(ma_ran, "copy")
    /\ LET r == iterate_repo(ma_env)
       IN IF r.ret = "error"
          THEN /\ ma_printed' = ma_printed \o r.printed \o <<"Error in iterating repository.">>
               /\ ma_failed' = ma_failed \cup {"copy"}
               /\ ma_pc' = "done"
          ELSE /\ ma_printed' = ma_printed \o r.printed \o <<"Repo folder: repo_folder">>
               /\ ma_failed' = ma_failed
               /\ ma_pc' = "repo_path"
    /\ UNCHANGED <<ma_env, scan_vars, ex_vars, cf_vars, dl_vars>>

\* if not repo_path.exists():
CheckRepoPath ==
    /\ ma_pc = "repo_path"
    /\ IF ma_env.repo_path = "missing"
       THEN /\ ma_printed' = Append(ma_printed, "[ERROR] Directory not found: repo_path")
            /\ ma_pc' = "done"
       ELSE /\ ma_printed' = ma_printed
            /\ ma_pc' = "scan"
    /\ UNCHANGED <<ma_env, ma_ran, ma_failed, scan_vars, ex_vars, cf_vars, dl_vars>>

\* the scan loop, which nothing guards: an exception in it leaves main
ScanRepo ==
    /\ ma_pc = "scan"
    /\ ma_ran' = Append(ma_ran, "scan")
    /\ IF ma_env.scan = "raises"
       THEN ma_failed' = ma_failed \cup {"scan"} /\ ma_pc' = "raised"
       ELSE ma_failed' = ma_failed /\ ma_pc' = "dump"
    /\ UNCHANGED <<ma_env, ma_printed, scan_vars, ex_vars, cf_vars, dl_vars>>

\* json.dump(results, f, indent=4) and the two [INFO] lines
DumpJson ==
    /\ ma_pc = "dump"
    /\ ma_ran' = Append(ma_ran, "dump")
    /\ ma_printed' = ma_printed \o <<"[INFO] Metadata extracted", "[INFO] JSON saved">>
    /\ ma_pc' = "documentation"
    /\ UNCHANGED <<ma_env, ma_failed, scan_vars, ex_vars, cf_vars, dl_vars>>

\* doc_build = documentation_generation(project_name) and the test of its
\* result
DocumentationGeneration ==
    /\ ma_pc = "documentation"
    /\ ma_ran' = Append(ma_ran, "documentation")
    /\ LET r == documentation_generation(ma_env)
       IN /\ ma_printed' = ma_printed \o r.printed \o
               (IF r.ret = "error" THEN <<"Error in documentation generation.">> ELSE <<>>)
          /\ ma_failed' = IF AnalyseMetadataRaises(ma_env)
                          THEN ma_failed \cup {"documentation"} ELSE ma_failed
    /\ ma_pc' = "done"
    /\ UNCHANGED <<ma_env, scan_vars, ex_vars, cf_vars, dl_vars>>

NextMain ==
    \/ InitialSetup
    \/ DownloadRepo
    \/ IterateRepo
    \/ CheckRepoPath
    \/ ScanRepo
    \/ DumpJson
    \/ DocumentationGeneration

SpecMain == InitMain /\ [][NextMain]_vars

----------------------------------------------------------------------------
(* Claims about the scan (specification Spec) *)

HasRecord(i) == \E k \in 1..Len(results) : results[k].file_path = i

IsTarget(i) == listing[i].is_file /\ Lower(listing[i].ext) \in DOMAIN LANG_BY_EXT

\* C1: no failure on a single file aborts the scan: whatever the per-file
\* faults, the scan never ends in an exception, and when it is over the
\* catalog holds a record for every target file that was not deleted.
C1_NoFileFaultAbortsScan ==
    /\ pc # "raised"
    /\ pc = "done" =>
         \A i \in DOMAIN listing : IsTarget(i) /\ deleted_at[i] = "never" => HasRecord(i)

\* C4 as stated: after the scan, a file that is_code_file classifies as code
\* and whose extension maps to no language has a catalog record, with its
\* size, line count and character count and empty functions and classes.
C4_UnknownLanguageRecorded ==
    pc = "done" =>
      \A i \in DOMAIN listing :
        (/\ is_code_file(listing[i]) /\ listing[i].is_file
         /\ LangOf(Lower(listing[i].ext)) = ""
         /\ deleted_at[i] = "never")
        => \E k \in 1..Len(results) :
             /\ results[k].file_path = i
             /\ results[k].size_bytes = listing[i].size
             /\ results[k].num_lines = listing[i].lines
             /\ results[k].num_characters = listing[i].size
             /\ results[k].functions = <<>> /\ results[k].classes = <<>>

\* C4 amended: a file whose extension maps to no language never gets a
\* catalog record, also when is_code_file classifies it as code: every record
\* of the catalog is of a file whose extension is in LANG_BY_EXT.
C4_UnknownLanguageNotRecorded ==
    /\ \A i \in DOMAIN listing : LangOf(Lower(listing[i].ext)) = "" => ~HasRecord(i)
    /\ \A k \in 1..Len(results) : results[k].language \in {"python", "php", "js", "ipynb"}

\* the scan of a listing with a Java file (code, no language) and a Python
\* file is over: the Python file has its record and the Java file has none
C4_Witness ==
    /\ pc = "done"
    /\ Len(results) = 1
    /\ \E i \in DOMAIN listing :
         /\ is_code_file(listing[i]) /\ listing[i].ext = ".java"
         /\ i \in present /\ ~HasRecord(i)

\* C10: a file deleted by another process between its listing and the end of
\* get_file_metadata still gets its record, with size_bytes 0 and
\* last_modified the empty string, and get_file_metadata does not raise.
C10_DeletedFileStillRecorded ==
    /\ raised # "FileNotFoundError"
    /\ \A k \in 1..Len(results) :
         deleted_at[results[k].file_path] \in {"read_text", "extract", "exists", "stat", "iso_mtime"}
         => results[k].size_bytes = 0 /\ results[k].last_modified = ""

----------------------------------------------------------------------------
(* Claims about the extractors (specification SpecExtract) *)

Returned == ex_out[1]

\* C2: each list an extractor returns (functions, classes, imports or uses,
\* includes) has no duplicate entry.
C2_NoDuplicateEntries ==
    (ex_out # None /\ Returned.raised = "none") =>
      /\ NoDup(Returned.funcs)
      /\ NoDup(Returned.classes)
      /\ "imports" \in DOMAIN Returned.extras => NoDup(Returned.extras.imports)
      /\ "includes" \in DOMAIN Returned.extras => NoDup(Returned.extras.includes)

RECURSIVE PyPreOrder(_, _)
\* the statements of a body in source order, each with its nesting depth
PyPreOrder(body, d) ==
    IF body = <<>> THEN <<>>
    ELSE << [node |-> Head(body), depth |-> d] >>
         \o PyPreOrder(Head(body).body, d + 1)
         \o PyPreOrder(Tail(body), d)

\* An occurrence: the entry e that a declaration of the source gives, and the
\* rank of its declaration form.  A sequence of occurrences is in source order.
Occ(e, rank) == [e |-> e, rank |-> rank]

PyDeclOccs(src, kind) ==
    LET sel == SelectSeq(src.body, LAMBDA n : n.kind = kind)
    IN [i \in 1..Len(sel) |-> Occ(sel[i].name, 0)]

\* what an import statement contributes: the imported name, or module.name
ImportedNames(node) ==
    [i \in 1..Len(node.names) |->
       IF node.kind = "ImportFrom" THEN node.module \o node.names[i] ELSE node.names[i]]

\* the rank of an import is its nesting depth
PyImportOccs(src) ==
    LET pre == SelectSeq(PyPreOrder(src.body, 0),
                         LAMBDA x : x.node.kind \in {"Import", "ImportFrom"})
    IN Flatten([p \in 1..Len(pre) |->
                  [k \in 1..Len(pre[p].node.names) |->
                     Occ(ImportedNames(pre[p].node)[k], pre[p].depth)]])

\* the rank of a JS function is the first of the five patterns that matches
JsFunctionRank ==
    [f \in {"function", "export_function", "var_function", "var_arrow", "export_var_arrow"} |->
       CASE f \in {"function", "export_function"} -> 1
         [] f = "var_function" -> 3
         [] OTHER -> 4]

JsImportRank ==
    [f \in {"import_from", "import_bare", "require"} |->
       CASE f = "import_from" -> 1 [] f = "import_bare" -> 2 [] OTHER -> 3]

PhpClassRank ==
    [f \in {"class", "interface", "trait"} |->
       CASE f = "class" -> 1 [] f = "interface" -> 2 [] OTHER -> 3]

OneRank(forms) == [f \in forms |-> 1]

\* the declarations outside comments of the forms ranked by rank
ItemOccs(src, comments, rank, as_text) ==
    LET sel == SelectSeq(src.items,
                         LAMBDA it : it.comment \notin comments /\ it.form \in DOMAIN rank)
    IN [i \in 1..Len(sel) |->
          Occ(IF as_text THEN <<sel[i].form, sel[i].name>> ELSE sel[i].name,
              rank[sel[i].form])]

Entries(occs) == { occs[p].e : p \in 1..Len(occs) }

\* the position in the source of the first occurrence of x
FirstOcc(occs, x) == CHOOSE p \in 1..Len(occs) :
                       occs[p].e = x /\ \A q \in 1..(p - 1) : occs[q].e # x

\* occurrence p comes before occurrence q by form, then by position
Before(occs, p, q) ==
    \/ occs[p].rank < occs[q].rank
    \/ occs[p].rank = occs[q].rank /\ p < q

\* the occurrence of x that comes before all its others
BestOcc(occs, x) == CHOOSE p \in 1..Len(occs) :
                      occs[p].e = x /\ \A q \in 1..Len(occs) :
                         (occs[q].e = x /\ q # p) => Before(occs, p, q)

\* a list is in the order of the first occurrences in the source
InSourceOrder(list, occs) ==
    /\ Range(list) \subseteq Entries(occs)
    /\ \A i, j \in 1..Len(list) :
         FirstOcc(occs, list[i]) < FirstOcc(occs, list[j])
         => FirstIdx(list, list[i]) < FirstIdx(list, list[j])

\* a list is ordered by declaration form, then by first occurrence
InFormThenSourceOrder(list, occs) ==
    /\ Range(list) \subseteq Entries(occs)
    /\ \A i, j \in 1..Len(list) :
         Before(occs, BestOcc(occs, list[i]), BestOcc(occs, list[j]))
         => FirstIdx(list, list[i]) < FirstIdx(list, list[j])

\* the functions, classes and imports of the result, each with the
\* occurrences in the source of the declarations that give its entries
ListsAndOccs ==
    CASE ex_lang = "python" ->
           << <<Returned.funcs, PyDeclOccs(ex_src, "FunctionDef")>>,
              <<Returned.classes, PyDeclOccs(ex_src, "ClassDef")>>,
              <<Returned.extras.imports, PyImportOccs(ex_src)>> >>
      [] ex_lang = "js" ->
           << <<Returned.funcs, ItemOccs(ex_src, {"block", "line"}, JsFunctionRank, FALSE)>>,
              <<Returned.classes,
                ItemOccs(ex_src, {"block", "line"}, OneRank({"class"}), FALSE)>>,
              <<Returned.extras.imports,
                ItemOccs(ex_src, {"block", "line"}, JsImportRank, TRUE)>> >>
      [] ex_lang = "php" ->
           << <<Returned.funcs,
                ItemOccs(ex_src, {"block", "line", "hash"},
                         OneRank({"function", "function_ref"}), FALSE)>>,
              <<Returned.classes,
                ItemOccs(ex_src, {"block", "line", "hash"}, PhpClassRank, FALSE)>>,
              <<Returned.extras.imports,
                ItemOccs(ex_src, {"block", "line", "hash"}, OneRank({"use"}), TRUE)>> >>
      [] OTHER -> <<>>

\* one of the three extractors with an imports list has returned
ExtractorReturned ==
    /\ ex_out # None
    /\ ex_lang \in {"python", "js", "php"}
    /\ ex_lang = "python" => ex_src.valid

\* C3 as stated: the entries of functions, classes and imports are in the
\* order of their first occurrence in the source, whichever declaration form
\* produced each entry.
C3_FirstOccurrenceOrder ==
    ExtractorReturned =>
      \A k \in 1..Len(ListsAndOccs) : InSourceOrder(ListsAndOccs[k][1], ListsAndOccs[k][2])

\* C3 amended: the entries of each list are ordered first by declaration form
\* in the order the extractor scans the forms (JS functions: function
\* declarations, then variable-bound function expressions, then variable-bound
\* arrows; JS imports: import-from, bare import, require; PHP classes: class,
\* interface, trait; Python imports: by nesting depth), and within one form
\* in the order of first occurrence in the source.
C3_FormThenOccurrenceOrder ==
    ExtractorReturned =>
      \A k \in 1..Len(ListsAndOccs) :
        InFormThenSourceOrder(ListsAndOccs[k][1], ListsAndOccs[k][2])

\* const a = () => ..; function b(..): the functions are b, a
C3_Witness ==
    /\ ex_lang = "js" /\ ex_out # None
    /\ ex_src.items = << Item("var_arrow", "a", "none"), Item("function", "b", "none") >>
    /\ Returned.funcs = <<"b", "a">>

\* C7: extract_ipynb_symbols never raises; for a text that is no document
\* with a cell list (no JSON, no object at the top level, cells or metadata
\* entries that are no objects) it returns empty functions and classes and
\* statistics whose three fields are null.
NbWellFormed(doc) ==
    /\ doc.json = "object"
    /\ doc.cells_t # "null"
    /\ \A i \in 1..Len(doc.cells) : doc.cells[i].t = "object"
    /\ doc.metadata.t # "null"
    /\ doc.metadata.kernelspec.t # "null" /\ doc.metadata.language_info.t # "null"

C7_IpynbNeverRaises ==
    (ex_lang = "ipynb" /\ ex_out # None) =>
      /\ Returned.raised = "none"
      /\ ~NbWellFormed(ex_src) =>
           /\ Returned.funcs = <<>> /\ Returned.classes = <<>>
           /\ Returned.extras.nb_stats = NullStats

\* C8: for a valid Python source, functions is exactly the names of the
\* function declarations (def and async def) of the module's statement list
\* and classes exactly the names of its class declarations, in source order.
C8_ModuleScopeDeclarations ==
    (ex_lang = "python" /\ ex_out # None /\ ex_src.valid) =>
      LET fs == SelectSeq(ex_src.body,
                          LAMBDA n : n.kind \in {"FunctionDef", "AsyncFunctionDef"})
          cs == SelectSeq(ex_src.body, LAMBDA n : n.kind = "ClassDef")
      IN /\ Returned.funcs = [i \in 1..Len(fs) |-> fs[i].name]
         /\ Returned.classes = [i \in 1..Len(cs) |-> cs[i].name]

\* C9: for a valid Python source, imports holds what the import statements at
\* every nesting depth contribute, the imported name of a plain import and
\* module.name (name alone for an empty module) of a from-import, and nothing
\* else; import os followed by from foo import bar gives os, foo.bar.
C9_ImportsAtEveryDepth ==
    (ex_lang = "python" /\ ex_out # None /\ ex_src.valid) =>
      /\ Range(Returned.extras.imports) = Entries(PyImportOccs(ex_src))
      /\ ex_src.body = << PyNode("Import", "", <<>>, << <<"os">> >>, <<>>),
                          PyNode("ImportFrom", "", <<"foo">>, << <<"bar">> >>, <<>>) >>
         => Returned.extras.imports = << <<"os">>, <<"foo", "bar">> >>

\* class C: def a(): from foo import bar -- the import at depth 2 is listed
C9_Witness ==
    /\ ex_lang = "python" /\ ex_out # None /\ ex_src.valid
    /\ \E x \in Range(PyPreOrder(ex_src.body, 0)) :
         x.depth = 2 /\ x.node.kind = "ImportFrom" /\ x.node.module = <<"foo">>
    /\ Returned.extras.imports = << <<"foo", "bar">> >>

----------------------------------------------------------------------------
(* Claims about the classifier (specification SpecClassify) *)

\* C5: the rules are tried in the order basename allow-list, extension
\* deny-list, extension allow-list, content markers, and the first that
\* applies decides: a basename on the allow-list is code, and a file whose
\* lower-cased extension is on the deny-list is never code, whatever its
\* content.
C5_DeniedExtensionNeverCode ==
    cf_out # None =>
      /\ Name(cf_file) \in NAME_ONLY_CODE => cf_out = Some(TRUE)
      /\ Lower(cf_file.ext) \in NON_CODE_BINARY_EXTS => cf_out = Some(FALSE)

\* a readable .PNG file without null bytes that starts with a shebang and
\* holds a code marker is no code
C5_Witness ==
    /\ cf_out = Some(FALSE)
    /\ cf_file.ext = ".PNG" /\ cf_file.readable /\ cf_file.nulls = {}
    /\ cf_file.shebang /\ cf_file.marker_ends # {}

\* C6: for a basename not on the allow-list with a lower-cased extension on
\* the extension allow-list, is_code_file is True exactly when the file can
\* be read and none of its first min(1024, size) bytes is null.
C6_AllowedExtensionIffText ==
    /\ CODE_EXTENSIONS \cap NON_CODE_BINARY_EXTS = {}
    /\ (/\ cf_out # None
        /\ Name(cf_file) \notin NAME_ONLY_CODE
        /\ Lower(cf_file.ext) \in CODE_EXTENSIONS)
       => (cf_out = Some(TRUE)
             <=> /\ cf_file.readable
                 /\ \A o \in cf_file.nulls : o > Min(1024, cf_file.size))

\* a .py file whose only null byte is byte 1025 is code
C6_Witness ==
    /\ cf_out = Some(TRUE)
    /\ Lower(cf_file.ext) = ".py" /\ cf_file.nulls = {1025}

----------------------------------------------------------------------------
(* More claims about the extractors (specification SpecExtract) *)

\* the positions of the cells of a notebook with the given tag
CellsTagged(doc, tag) == { i \in 1..Len(doc.cells) : doc.cells[i].cell_type = tag }

\* a notebook whose code cells all have a source that can be joined
NbJoinable(doc) ==
    \A i \in CellsTagged(doc, "code") : doc.cells[i].source_t # "number"

RECURSIVE DeclNamesFrom(_, _, _)
\* the names of the module-level declarations of one kind in the code cells
\* from position i on, cell by cell
DeclNamesFrom(doc, i, kind) ==
    IF i > Len(doc.cells) THEN <<>>
    ELSE (IF doc.cells[i].cell_type = "code"
          THEN NamesOfKind(doc.cells[i].py.body, kind) ELSE <<>>)
         \o DeclNamesFrom(doc, i + 1, kind)

\* C11: for a well-formed notebook the code-cell count is the number of cells
\* tagged code, the markdown-cell count the number of cells tagged markdown,
\* and functions and classes are what the Python extractor finds in the code
\* cells' sources joined in cell order: the declarations of the cells one
\* after the other, or nothing when the joined text has a syntax error; two
\* code cells defining a and b and a markdown cell give functions a, b and
\* the counts 2 and 1.
C11_NotebookCountsAndSymbols ==
    (ex_lang = "ipynb" /\ ex_out # None /\ NbWellFormed(ex_src) /\ NbJoinable(ex_src)) =>
      LET ok == \A i \in CellsTagged(ex_src, "code") : ex_src.cells[i].py.valid
      IN /\ Returned.raised = "none"
         /\ Returned.extras.nb_stats.nb_num_code_cells
              = Some(Cardinality(CellsTagged(ex_src, "code")))
         /\ Returned.extras.nb_stats.nb_num_markdown_cells
              = Some(Cardinality(CellsTagged(ex_src, "markdown")))
         /\ Returned.funcs = IF ok THEN DeclNamesFrom(ex_src, 1, "FunctionDef") ELSE <<>>
         /\ Returned.classes = IF ok THEN DeclNamesFrom(ex_src, 1, "ClassDef") ELSE <<>>

\* the notebook of the example: def a, def b, a markdown cell
C11_Witness ==
    /\ ex_lang = "ipynb" /\ ex_out # None /\ NbWellFormed(ex_src)
    /\ Len(ex_src.cells) = 3
    /\ ex_src.cells[1].cell_type = "code" /\ ex_src.cells[1].py.body = <<PyDef("a")>>
    /\ ex_src.cells[2].cell_type = "code" /\ ex_src.cells[2].py.body = <<PyDef("b")>>
    /\ ex_src.cells[3].cell_type = "markdown"
    /\ Returned.funcs = <<"a", "b">>
    /\ Returned.extras.nb_stats.nb_num_code_cells = Some(2)
    /\ Returned.extras.nb_stats.nb_num_markdown_cells = Some(1)

\* C12: every include, include_once, require or require_once statement
\* outside comments that is applied to a quoted argument and ended by a
\* statement terminator, such as require_once('lib.php');, is in the includes
\* list with its whole text.
C12_QuotedIncludesListed ==
    (ex_lang = "php" /\ ex_out # None) =>
      \A i \in 1..Len(ex_src.items) :
        (ex_src.items[i].form = "include_quoted" /\ ex_src.items[i].comment = "none")
        => <<"include_quoted", ex_src.items[i].name>> \in Range(Returned.extras.includes)

----------------------------------------------------------------------------
(* More claims about the scan (specification Spec) *)

\* the positions in the catalog of the records of listed file i
RecordsOf(i) == { k \in 1..Len(results) : results[k].file_path = i }

\* file i was a target when the loop tested it: a regular file with a known
\* extension that was still on disk at that moment
WasTarget(i) == IsTarget(i) /\ deleted_at[i] \notin {"ahead", "loop"}

\* at most one record per listed file, in listing order, none for a file the
\* loop has not reached
CatalogInListingOrder ==
    /\ \A k \in 1..Len(results) : results[k].file_path \in 1..Len(listing)
    /\ \A k \in 1..Len(results) : results[k].file_path <= idx
    /\ \A k, l \in 1..Len(results) :
         k < l => results[k].file_path < results[l].file_path

\* when the loop is over there is exactly one record per target file and none
\* for any other entry
CatalogCompleteAtEnd ==
    pc = "done" =>
      \A i \in 1..Len(listing) :
        Cardinality(RecordsOf(i)) = IF WasTarget(i) THEN 1 ELSE 0

\* a step leaves the catalog alone or appends one record, for the file the
\* loop is processing
CatalogStep ==
    \/ results' = results
    \/ /\ Len(results') = Len(results) + 1
       /\ SubSeq(results', 1, Len(results)) = results
       /\ results'[Len(results')].file_path = idx
       /\ pc = "iso_mtime"

\* C13: at every point of a scan the catalog has at most one record per
\* listed file, in listing order; every step either appends exactly one
\* record, for the file being processed, or leaves the catalog unchanged, so
\* no record is changed, removed or reordered; and when the loop is over
\* there is exactly one record per target file.
C13_CatalogAppendOnly ==
    /\ [](CatalogInListingOrder /\ CatalogCompleteAtEnd)
    /\ [][CatalogStep]_vars

\* a finished scan of two target files: two records, in listing order
C13_Witness ==
    /\ pc = "done" /\ Len(listing) = 2
    /\ WasTarget(1) /\ WasTarget(2)
    /\ Len(results) = 2
    /\ results[1].file_path = 1 /\ results[2].file_path = 2

----------------------------------------------------------------------------
(* Claims about the download (specification SpecDownload) *)

GitCloneAttempt == <<"git", "clone">>
ZipAttempt(branch) == <<"zip", branch>>

Tried(attempt) == \E k \in 1..Len(dl_tried) : dl_tried[k] = attempt

\* the fixed order of the fetches
FallbackOrder == <<GitCloneAttempt, ZipAttempt("main"), ZipAttempt("master")>>

FallbackRank(attempt) == CHOOSE r \in 1..Len(FallbackOrder) : FallbackOrder[r] = attempt

DownloadOver == dl_pc = "done"

----------------------------------------------------------------------------
(* Claims about the pipeline (specification SpecMain) *)

Ran(stage) == \E k \in 1..Len(ma_ran) : ma_ran[k] = stage

Reported(message) == \E k \in 1..Len(ma_printed) : ma_printed[k] = message

\* C15: every failed stage stops the pipeline before the next stage: after
\* a failed download no copy, scan or documentation step runs; after a
\* failed copy no scan or documentation step runs; and when the
\* documentation generation has failed (analyse_metadata raised) main
\* reports "Error in documentation generation.".
C15_FailedStageStopsPipeline ==
    /\ "download" \in ma_failed =>
         ~Ran("copy") /\ ~Ran("scan") /\ ~Ran("documentation")
    /\ "copy" \in ma_failed => ~Ran("scan") /\ ~Ran("documentation")
    /\ "documentation" \in ma_failed => Reported("Error in documentation generation.")

=============================================================================
